---- MODULE Spec2Model ----
(***************************************************************************)
(* DPST (Display Power Savings Technology) state and hardware-access       *)
(* controller of the i915 driver: the ioctl dispatcher i915_dpst_context,  *)
(* the kernel suppression entry i915_dpst_set_kernel_disable, and the      *)
(* register sequences they run.                                            *)
(*                                                                         *)
(* Every handler is a pure operator from a machine record                  *)
(*    m = [dev, dpst, hw, panel, wr]                                       *)
(* to a result [m, ret] (and the caller's buffer where there is one).      *)
(* m.wr is the list of hardware accesses made by the call in progress.     *)
(* An action of Spec applies one handler, under the ioctl_lock, as one     *)
(* step.  SpecScale and SpecFetch run the backlight scaling and the        *)
(* histogram fetch over wider inputs.  SpecLock, SpecIrq, SpecBacklight    *)
(* and SpecTerm run the calls statement by statement, with the lock, next  *)
(* to a second caller, the interrupt handler or a backlight request.       *)
(***************************************************************************)
EXTENDS Integers, Sequences, FiniteSets, TLC

(***************************************************************************)
(* Bounds of the model.                                                    *)
(***************************************************************************)
\* number of histogram bins read by one fetch (HIST_BIN_COUNT in the driver)
HIST_BIN_COUNT == 2
\* number of image enhancement entries (DPST_DIET_ENTRY_COUNT in the driver)
DPST_DIET_ENTRY_COUNT == 2
\* most passes over the bins that one fetch gives up because of a busy read
MaxBusy == 1
\* most reads of the bin register by one fetch whose reads are kept
MaxReads == 4

(***************************************************************************)
(* Program constants.                                                      *)
(***************************************************************************)
DPST_MAX_FACTOR == 10000
EINVAL == 22

NULL == "NULL"
\* 2^16: a u32 is two halves of 16 bits
U16 == 65536

\* bits of the histogram control register
IE_HISTOGRAM_ENABLE == "IE_HISTOGRAM_ENABLE"
HSV_INTENSITY_MODE == "HSV_INTENSITY_MODE"
IE_MOD_TABLE_ENABLE == "IE_MOD_TABLE_ENABLE"
ENHANCEMENT_MODE_MULT == "ENHANCEMENT_MODE_MULT"
BIN_REG_FUNCTION_SELECT_IE == "BIN_REG_FUNCTION_SELECT_IE"
\* bits of the histogram guard register
HISTOGRAM_INTERRUPT_ENABLE == "HISTOGRAM_INTERRUPT_ENABLE"
HISTOGRAM_EVENT_STATUS == "HISTOGRAM_EVENT_STATUS"
GB_DELAY == "GB_DELAY"
GB_THRESHOLD == "GB_THRESHOLD"

(***************************************************************************)
(* Inputs.                                                                 *)
(***************************************************************************)
Platforms == {"HASWELL", "VALLEYVIEW", "OTHER"}
\* the calling task of an init and the signal number it asks for
NotifyInputs == {[task |-> "t1", sig |-> 34], [task |-> "t2", sig |-> 35]}
GbDelays == {1}
GbThresholds == {1}
\* dpst_blc_factor values of an apply
BlcFactors == {5000, 7500}
\* factor_present values of an apply
IeFactors == {10000}
IeTables == [1..DPST_DIET_ENTRY_COUNT -> IeFactors]
\* raw backlight level of the panel (panel->backlight.level)
PanelLevels == {1000}
\* dpst_blc_factor values of an apply that nothing validates, and the
\* brightness values of the callers of i915_dpst_set_brightness
AnyBlcFactors == {0, 1, 99, 100, 5000, 7500, 9999, 10000, 65536, 5000000}
AnyLevels == {0, 1, 99, 100, 255, 1000, 4095, 65535}
\* count field of a histogram bin
BinCounts == {1}
BusyRead == [busy |-> TRUE, count |-> 0]
CleanReads == [busy : {FALSE}, count : BinCounts]
\* every value the bin register can return to one read
ReadValues == {BusyRead} \cup [busy : {FALSE}, count : {1, 2}]
\* the caller's buffer before the call, and the value of a slot never written
Untouched == [i \in 1..HIST_BIN_COUNT |-> 0]

\* the contexts that calls into the driver run in, one call at a time each
\* (the calling task of an init is the `current` of its data)
Threads == {"T1", "T2"}

VARIABLES dev, dpst, hw, panel, op, pre, applied, rt, ud, lock, pc, irq, ext

vars == <<dev, dpst, hw, panel, op, pre, applied, rt, ud, lock, pc, irq, ext>>

\* what the calls in progress hold: lock = the holder of dpst.ioctl_lock,
\* pc[t] = where task t is in its call, irq = where the interrupt handler is
\* and the signal it delivered, ext = the factor the last backlight request
\* from outside the dispatcher was scaled with
calls == <<lock, pc, irq, ext>>

(***************************************************************************)
(* The machine record the handlers work on.                                *)
(***************************************************************************)
Machine == [dev |-> dev, dpst |-> dpst, hw |-> hw, panel |-> panel, wr |-> <<>>]

DpstInit ==
    [user_enable |-> FALSE, kernel_disable |-> FALSE, enabled |-> FALSE,
     blc_adjustment |-> 0,
     saved |-> [is_valid |-> FALSE, blc_adjustment |-> 0],
     reg |-> "unresolved", task |-> NULL, signal |-> 0]

\* content of the histogram registers nothing has written yet
HwReset ==
    [ctl |-> {}, idx |-> 0, guard |-> {}, pending |-> FALSE,
     ie |-> [i \in 1..DPST_DIET_ENTRY_COUNT |-> 0]]

(***************************************************************************)
(* Register access.  hw holds the content of the three registers that      *)
(* dpst.reg names.                                                         *)
(***************************************************************************)
ReadCtl(m) == m.hw.ctl

WriteCtl(m, bits, idx) ==
    [m EXCEPT !.hw.ctl = bits, !.hw.idx = idx,
              !.wr = Append(@, [reg |-> "blm_hist_ctl", val |-> bits, idx |-> idx])]

\* the pending-event bit reads as set while an event is pending
ReadGuard(m) ==
    m.hw.guard \cup (IF m.hw.pending THEN {HISTOGRAM_EVENT_STATUS} ELSE {})

\* writing the pending-event bit as 1 clears the pending event
WriteGuard(m, bits) ==
    [m EXCEPT !.hw.guard = bits \ {HISTOGRAM_EVENT_STATUS},
              !.hw.pending = @ /\ HISTOGRAM_EVENT_STATUS \notin bits,
              !.wr = Append(@, [reg |-> "blm_hist_guard", val |-> bits, idx |-> 0])]

\* a write to the bin register stores into the entry the index names and
\* advances the index
WriteBin(m, v) ==
    LET i == m.hw.idx + 1
        stored == IF BIN_REG_FUNCTION_SELECT_IE \in m.hw.ctl
                     /\ i \in 1..DPST_DIET_ENTRY_COUNT
                  THEN [m.hw.ie EXCEPT ![i] = v]
                  ELSE m.hw.ie
    IN  [m EXCEPT !.hw.ie = stored, !.hw.idx = i,
                  !.wr = Append(@, [reg |-> "blm_hist_bin", val |-> {v}, idx |-> i])]

WaitForVblank(m) ==
    [m EXCEPT !.wr = Append(@, [reg |-> "vblank", val |-> {}, idx |-> 0])]

intel_panel_actually_set_backlight(m, level) ==
    [m EXCEPT !.panel.actual = level,
              !.wr = Append(@, [reg |-> "backlight", val |-> {level}, idx |-> 0])]

\* taking and releasing dev_priv->backlight_lock
spin_lock_irqsave(m) ==
    [m EXCEPT !.wr = Append(@, [reg |-> "backlight_lock", val |-> {"lock"}, idx |-> 0])]

spin_unlock_irqrestore(m) ==
    [m EXCEPT !.wr = Append(@, [reg |-> "backlight_lock", val |-> {"unlock"}, idx |-> 0])]

get_intel_connector_on_edp(m) == IF m.dev.edp THEN "edp" ELSE NULL

(***************************************************************************)
(* The handlers.                                                           *)
(***************************************************************************)
\* the u32 product a * b, wrapped to 32 bits, as its two 16-bit halves
\* [hi, lo] (no intermediate value exceeds 31 bits); a, b in 0..2^31-1
u32_mul(a, b) ==
    LET ah == a \div U16
        al == a % U16
        bh == b \div U16
        bl == b % U16
        x == (al \div 256) * bl
        y == (al % 256) * bl
        lo_sum == ((x % 256) * 256) + (y % U16)
    IN  [hi |-> ((x \div 256) + (y \div U16) + (lo_sum \div U16)
                    + ((ah * bl) % U16) + ((al * bh) % U16)) % U16,
         lo |-> lo_sum % U16]

\* the u32 quotient p / d of a 32-bit value p = [hi, lo] by d in 2..U16
u32_div(p, d) == (p.hi \div d) * U16 + ((p.hi % d) * U16 + p.lo) \div d

i915_dpst_set_brightness(m, brightness_val) ==
    IF get_intel_connector_on_edp(m) = NULL THEN m
    ELSE IF ~m.dpst.enabled THEN m
    ELSE intel_panel_actually_set_backlight(m,
            u32_div(u32_mul(brightness_val, m.dpst.blc_adjustment), 100) \div 100)

i915_dpst_clear_hist_interrupt(m) ==
    [m |-> WriteGuard(m, ReadGuard(m) \cup {HISTOGRAM_EVENT_STATUS}), ret |-> 0]

\* statement k of i915_dpst_enable_hist_interrupt (a register read and the
\* write of what was read are one statement)
enable_hist_statement(m, k) ==
    CASE k = 1 -> [m EXCEPT !.dpst.enabled = TRUE]
      [] k = 2 -> [m EXCEPT !.dpst.blc_adjustment = DPST_MAX_FACTOR]
      [] k = 3 -> WriteCtl(m, ReadCtl(m) \cup {IE_HISTOGRAM_ENABLE, HSV_INTENSITY_MODE},
                           m.hw.idx)
      [] k = 4 -> WaitForVblank(m)
      [] k = 5 -> WriteGuard(m, ReadGuard(m) \cup {HISTOGRAM_EVENT_STATUS})
      [] k = 6 -> WriteGuard(m, ReadGuard(m) \cup {HISTOGRAM_INTERRUPT_ENABLE})

i915_dpst_enable_hist_interrupt(m) ==
    LET m1 == enable_hist_statement(enable_hist_statement(m, 1), 2)
        m2 == enable_hist_statement(m1, 3)
        m3 == enable_hist_statement(m2, 4)
        m4 == enable_hist_statement(m3, 5)
        m5 == enable_hist_statement(m4, 6)
    IN  [m |-> m5, ret |-> 0]

i915_dpst_disable_hist_interrupt(m) ==
    IF get_intel_connector_on_edp(m) = NULL THEN [m |-> m, ret |-> -EINVAL]
    ELSE
    LET m1 == [m EXCEPT !.dpst.enabled = FALSE,
                        !.dpst.blc_adjustment = DPST_MAX_FACTOR]
        m2 == WriteGuard(m1, (ReadGuard(m1) \cup {HISTOGRAM_EVENT_STATUS})
                                \ {HISTOGRAM_INTERRUPT_ENABLE})
        m3 == WriteCtl(m2, ReadCtl(m2) \ {IE_HISTOGRAM_ENABLE, IE_MOD_TABLE_ENABLE},
                       m2.hw.idx)
        m4 == spin_unlock_irqrestore(
                  intel_panel_actually_set_backlight(spin_lock_irqsave(m3),
                                                     m3.panel.level))
    IN  [m |-> m4, ret |-> 0]

\* a user disable that invalidates the saved settings only on the path that
\* disables the hardware
set_user_enable_invalidate_if_enabled(m, enable) ==
    LET m1 == [m EXCEPT !.dpst.user_enable = enable]
    IN  IF enable
        THEN IF ~m1.dpst.kernel_disable /\ ~m1.dpst.enabled
             THEN i915_dpst_enable_hist_interrupt(m1)
             ELSE [m |-> m1, ret |-> 0]
        ELSE IF m1.dpst.enabled
             THEN i915_dpst_disable_hist_interrupt(
                      [m1 EXCEPT !.dpst.saved.is_valid = FALSE])
             ELSE [m |-> m1, ret |-> 0]

\* a user disable that leaves the saved settings valid
set_user_enable_keeps_saved(m, enable) ==
    LET m1 == [m EXCEPT !.dpst.user_enable = enable]
    IN  IF enable
        THEN IF ~m1.dpst.kernel_disable /\ ~m1.dpst.enabled
             THEN i915_dpst_enable_hist_interrupt(m1)
             ELSE [m |-> m1, ret |-> 0]
        ELSE IF m1.dpst.enabled
             THEN i915_dpst_disable_hist_interrupt(m1)
             ELSE [m |-> m1, ret |-> 0]

i915_dpst_set_user_enable(m, enable) ==
    LET m1 == [m EXCEPT !.dpst.user_enable = enable]
    IN  IF enable
        THEN IF ~m1.dpst.kernel_disable /\ ~m1.dpst.enabled
             THEN i915_dpst_enable_hist_interrupt(m1)
             ELSE [m |-> m1, ret |-> 0]
        ELSE LET m2 == [m1 EXCEPT !.dpst.saved.is_valid = FALSE]
             IN  IF m2.dpst.enabled
                 THEN i915_dpst_disable_hist_interrupt(m2)
                 ELSE [m |-> m2, ret |-> 0]

\* diet_factor = factor_present[i] * 0x200 / 10000
DietFactor(factor_present) == (factor_present * 512) \div 10000

RECURSIVE ProgramTable(_, _, _)
\* for (i = 0; i < DPST_DIET_ENTRY_COUNT; i++) write diet_factor to the bin register
ProgramTable(m, table, i) ==
    IF i > DPST_DIET_ENTRY_COUNT THEN m
    ELSE ProgramTable(WriteBin(m, DietFactor(table[i])), table, i + 1)

\* an apply that treats a kernel disable like a user disable
apply_luma_rejects_kernel_disable(m, data) ==
    IF get_intel_connector_on_edp(m) = NULL THEN [m |-> m, ret |-> -EINVAL]
    ELSE IF ~m.dpst.user_enable \/ m.dpst.kernel_disable
    THEN [m |-> m, ret |-> -EINVAL]
    ELSE
    LET m1 == WriteCtl(m, ReadCtl(m) \cup {BIN_REG_FUNCTION_SELECT_IE}, 0)
        m2 == ProgramTable(m1, data.table, 1)
        m3 == [m2 EXCEPT !.dpst.blc_adjustment = data.blc]
        m4 == spin_unlock_irqrestore(
                  i915_dpst_set_brightness(spin_lock_irqsave(m3),
                                           m3.panel.level))
        m5 == WriteCtl(m4, ReadCtl(m4) \cup {IE_MOD_TABLE_ENABLE, ENHANCEMENT_MODE_MULT},
                       m4.hw.idx)
    IN  [m |-> m5, ret |-> 0]

\* an apply without the deferred path: it applies the settings at once even
\* while the kernel has disabled the feature
apply_luma_never_defers(m, data) ==
    IF get_intel_connector_on_edp(m) = NULL THEN [m |-> m, ret |-> -EINVAL]
    ELSE IF ~m.dpst.user_enable THEN [m |-> m, ret |-> -EINVAL]
    ELSE
    LET m1 == WriteCtl(m, ReadCtl(m) \cup {BIN_REG_FUNCTION_SELECT_IE}, 0)
        m2 == ProgramTable(m1, data.table, 1)
        m3 == [m2 EXCEPT !.dpst.blc_adjustment = data.blc]
        m4 == spin_unlock_irqrestore(
                  i915_dpst_set_brightness(spin_lock_irqsave(m3),
                                           m3.panel.level))
        m5 == WriteCtl(m4, ReadCtl(m4) \cup {IE_MOD_TABLE_ENABLE, ENHANCEMENT_MODE_MULT},
                       m4.hw.idx)
    IN  [m |-> m5, ret |-> 0]

i915_dpst_apply_luma(m, data) ==
    IF get_intel_connector_on_edp(m) = NULL THEN [m |-> m, ret |-> -EINVAL]
    ELSE IF ~m.dpst.user_enable THEN [m |-> m, ret |-> -EINVAL]
    ELSE
    LET m1 == WriteCtl(m, ReadCtl(m) \cup {BIN_REG_FUNCTION_SELECT_IE}, 0)
        m2 == ProgramTable(m1, data.table, 1)
    IN  IF m2.dpst.kernel_disable
        THEN [m |-> [m2 EXCEPT !.dpst.saved =
                         [is_valid |-> TRUE, blc_adjustment |-> data.blc]],
              ret |-> 0]
        ELSE
        LET m3 == [m2 EXCEPT !.dpst.blc_adjustment = data.blc]
            m4 == spin_unlock_irqrestore(
                      i915_dpst_set_brightness(spin_lock_irqsave(m3),
                                               m3.panel.level))
            m5 == WriteCtl(m4, ReadCtl(m4) \cup {IE_MOD_TABLE_ENABLE, ENHANCEMENT_MODE_MULT},
                           m4.hw.idx)
        IN  [m |-> m5, ret |-> 0]

\* a save that records the neutral factor instead of the one in effect
save_luma_neutral_factor(m) ==
    IF IE_MOD_TABLE_ENABLE \notin ReadCtl(m) THEN m
    ELSE [m EXCEPT !.dpst.saved =
              [is_valid |-> TRUE, blc_adjustment |-> DPST_MAX_FACTOR]]

i915_dpst_save_luma(m) ==
    IF IE_MOD_TABLE_ENABLE \notin ReadCtl(m) THEN m
    ELSE [m EXCEPT !.dpst.saved =
              [is_valid |-> TRUE, blc_adjustment |-> m.dpst.blc_adjustment]]

\* a restore that consumes the saved settings
restore_luma_consumes_saved(m) ==
    IF get_intel_connector_on_edp(m) = NULL THEN m
    ELSE IF ~m.dpst.saved.is_valid THEN m
    ELSE
    LET m1 == [m EXCEPT !.dpst.blc_adjustment = m.dpst.saved.blc_adjustment,
                        !.dpst.saved.is_valid = FALSE]
        m2 == spin_unlock_irqrestore(
                  i915_dpst_set_brightness(spin_lock_irqsave(m1),
                                           m1.panel.level))
    IN  WriteCtl(m2, ReadCtl(m2) \cup {IE_MOD_TABLE_ENABLE, ENHANCEMENT_MODE_MULT},
                 m2.hw.idx)

i915_dpst_restore_luma(m) ==
    IF get_intel_connector_on_edp(m) = NULL THEN m
    ELSE IF ~m.dpst.saved.is_valid THEN m
    ELSE
    LET m1 == [m EXCEPT !.dpst.blc_adjustment = m.dpst.saved.blc_adjustment]
        m2 == spin_unlock_irqrestore(
                  i915_dpst_set_brightness(spin_lock_irqsave(m1),
                                           m1.panel.level))
    IN  WriteCtl(m2, ReadCtl(m2) \cup {IE_MOD_TABLE_ENABLE, ENHANCEMENT_MODE_MULT},
                 m2.hw.idx)

RECURSIVE bin_loop_keeps_index(_, _, _, _)
\* a read loop that resets the index register on a busy read and goes on with
\* the next slot of the caller's buffer
bin_loop_keeps_index(m, out, index, reads) ==
    IF index >= HIST_BIN_COUNT \/ reads = <<>>
    THEN [m |-> m, out |-> out, index |-> index, left |-> reads]
    ELSE LET blm_hist_bin == Head(reads)
             mr == [m EXCEPT !.hw.idx = @ + 1]
         IN  IF ~blm_hist_bin.busy
             THEN bin_loop_keeps_index(mr,
                      [out EXCEPT ![index + 1] = blm_hist_bin.count],
                      index + 1, Tail(reads))
             ELSE bin_loop_keeps_index(WriteCtl(mr, ReadCtl(mr), 0), out,
                                       index + 1, Tail(reads))

RECURSIVE BinLoop(_, _, _, _)
\* the read loop of i915_dpst_get_bin_data over the values `reads` the bin
\* register returns; left = the reads not consumed, index = the loop index
BinLoop(m, out, index, reads) ==
    IF index >= HIST_BIN_COUNT \/ reads = <<>>
    THEN [m |-> m, out |-> out, index |-> index, left |-> reads]
    ELSE LET blm_hist_bin == Head(reads)
             mr == [m EXCEPT !.hw.idx = @ + 1]
         IN  IF ~blm_hist_bin.busy
             THEN BinLoop(mr, [out EXCEPT ![index + 1] = blm_hist_bin.count],
                          index + 1, Tail(reads))
             ELSE BinLoop(WriteCtl(mr, ReadCtl(mr), 0), out, 0, Tail(reads))

\* a fetch that is refused whenever the hardware is off, also when only the
\* kernel has disabled it
get_bin_data_refused_when_not_enabled(m, out, reads) ==
    IF ~m.dpst.enabled
    THEN [m |-> m, ret |-> -EINVAL, out |-> out, done |-> reads = <<>>]
    ELSE
    LET m1 == WriteCtl(m, ReadCtl(m) \ {BIN_REG_FUNCTION_SELECT_IE}, 0)
        l == BinLoop(m1, out, 0, reads)
    IN  [m |-> l.m, ret |-> 0, out |-> l.out,
         done |-> l.index = HIST_BIN_COUNT /\ l.left = <<>>]

\* done = the loop has returned; otherwise the call is still in its loop
i915_dpst_get_bin_data(m, out, reads) ==
    IF ~m.dpst.enabled /\ ~m.dpst.user_enable
    THEN [m |-> m, ret |-> -EINVAL, out |-> out, done |-> reads = <<>>]
    ELSE
    LET m1 == WriteCtl(m, ReadCtl(m) \ {BIN_REG_FUNCTION_SELECT_IE}, 0)
        l == BinLoop(m1, out, 0, reads)
    IN  [m |-> l.m, ret |-> 0, out |-> l.out,
         done |-> l.index = HIST_BIN_COUNT /\ l.left = <<>>]

\* dpst.reg names the registers of the platform; registers newly named have
\* the content nothing has written yet
i915_dpst_update_registers(m) ==
    LET resolved == IF m.dev.platform = "HASWELL" THEN "BLM_HIST"
                    ELSE IF m.dev.platform = "VALLEYVIEW" THEN "VLV_BLC_HIST"
                    ELSE m.dpst.reg
    IN  IF m.dev.platform \notin {"HASWELL", "VALLEYVIEW"}
        THEN [m |-> m, ret |-> -EINVAL]
        ELSE [m |-> [m EXCEPT !.dpst.reg = resolved,
                              !.hw = IF m.dpst.reg = resolved THEN @ ELSE HwReset],
              ret |-> 0]

\* (gb_delay << 22) | threshold_gb
GuardBand(data) ==
    (IF data.gb_delay # 0 THEN {GB_DELAY} ELSE {})
        \cup (IF data.threshold_gb # 0 THEN {GB_THRESHOLD} ELSE {})

\* an init that records the notify target before it resolves the registers
init_records_target_first(m, data) ==
    LET m0 == [m EXCEPT !.dpst.task = data.current, !.dpst.signal = data.sig_num]
        u == i915_dpst_update_registers(m0)
    IN  IF u.ret # 0 THEN [m |-> m0, ret |-> -EINVAL]
        ELSE
        LET m3 == WriteGuard(u.m, ReadGuard(u.m) \cup GuardBand(data))
        IN  i915_dpst_set_user_enable(m3, TRUE)

i915_dpst_init(m, data) ==
    LET u == i915_dpst_update_registers(m)
    IN  IF u.ret # 0 THEN [m |-> m, ret |-> -EINVAL]
        ELSE
        LET m1 == [u.m EXCEPT !.dpst.task = data.current]
            m2 == [m1 EXCEPT !.dpst.signal = data.sig_num]
            m3 == WriteGuard(m2, ReadGuard(m2) \cup GuardBand(data))
        IN  i915_dpst_set_user_enable(m3, TRUE)

\* data.null = the caller passed no data; otherwise data is the caller's
\* dpst_initialize_context, with the calling task (current) and the values the
\* bin register returns during the call (reads; trace = reads when the call
\* is one whose reads are kept for the properties, <<>> otherwise)
i915_dpst_context(m, data) ==
    IF data.null THEN [m |-> m, ret |-> -EINVAL, out |-> Untouched, done |-> TRUE]
    ELSE IF ~m.dev.has_dpst
    THEN [m |-> m, ret |-> -EINVAL, out |-> data.out, done |-> TRUE]
    ELSE
    LET t == data.dpst_ioctl_type
        r == IF t = "DPST_ENABLE" THEN i915_dpst_set_user_enable(m, TRUE)
             ELSE IF t = "DPST_DISABLE" THEN i915_dpst_set_user_enable(m, FALSE)
             ELSE IF t = "DPST_INIT_DATA" THEN i915_dpst_init(m, data)
             ELSE IF t = "DPST_APPLY_LUMA" THEN i915_dpst_apply_luma(m, data)
             ELSE IF t = "DPST_RESET_HISTOGRAM_STATUS"
             THEN i915_dpst_clear_hist_interrupt(m)
             ELSE [m |-> m, ret |-> -EINVAL]
    IN  IF t = "DPST_GET_BIN_DATA"
        THEN i915_dpst_get_bin_data(m, data.out, data.reads)
        ELSE [m |-> r.m, ret |-> r.ret, out |-> data.out, done |-> TRUE]

i915_dpst_set_kernel_disable(m, disable) ==
    IF ~m.dev.has_dpst THEN [m |-> m, ret |-> -EINVAL]
    ELSE
    LET m1 == [m EXCEPT !.dpst.kernel_disable = disable]
    IN  IF disable /\ m1.dpst.enabled
        THEN i915_dpst_disable_hist_interrupt(i915_dpst_save_luma(m1))
        ELSE IF ~disable /\ m1.dpst.user_enable
        THEN LET e == i915_dpst_enable_hist_interrupt(m1)
             IN  IF e.ret = 0
                 THEN [m |-> i915_dpst_restore_luma(e.m), ret |-> e.ret]
                 ELSE e
        ELSE [m |-> m1, ret |-> 0]

(***************************************************************************)
(* Inputs of the calls.                                                    *)
(***************************************************************************)
Data(type) ==
    [null |-> FALSE, dpst_ioctl_type |-> type, current |-> "t1", sig_num |-> 0,
     gb_delay |-> 0, threshold_gb |-> 0,
     table |-> [i \in 1..DPST_DIET_ENTRY_COUNT |-> 0], blc |-> 0,
     out |-> Untouched, reads |-> <<>>, trace |-> <<>>, brightness_val |-> 0]

\* a pass over the bins that ends in a busy read
AbortedPasses ==
    UNION {{Append(p, BusyRead) : p \in [1..k -> CleanReads]} :
              k \in 0..(HIST_BIN_COUNT - 1)}

RECURSIVE BusyPrefixes(_)
BusyPrefixes(n) ==
    IF n = 0 THEN {<<>>}
    ELSE LET P == BusyPrefixes(n - 1)
         IN  P \cup {p \o a : p \in P, a \in AbortedPasses}

\* what the bin register returns during one fetch: at most MaxBusy aborted
\* passes and then a pass without a busy read; <<>> when it is not read
FetchReads ==
    {<<>>} \cup {p \o c : p \in BusyPrefixes(MaxBusy),
                          c \in [1..HIST_BIN_COUNT -> CleanReads]}

(***************************************************************************)
(* The state machine.                                                      *)
(***************************************************************************)
\* a task that is not in a call
Idle ==
    [at |-> "idle", fn |-> "none", k |-> 0, then |-> "none", sig |-> 0,
     gb |-> {}, index |-> 0, out |-> Untouched, ret |-> 0, seq |-> <<>>]

\* the interrupt handler not running: nothing loaded (sig -1, task "unread"),
\* nothing sent since the last histogram event
IrqIdle == [at |-> "idle", sig |-> -1, task |-> "unread", sent |-> <<>>]

\* no backlight request from outside has been scaled
NoFactor == -1

\* the value of op when no call has returned since `what`
NoCall(what) ==
    [cmd |-> what, disable |-> FALSE, task |-> NULL, sig |-> 0, blc |-> 0, val |-> 0,
     reads |-> <<>>,
     table |-> [i \in 1..DPST_DIET_ENTRY_COUNT |-> 0], ret |-> 0,
     wr |-> <<>>, out |-> Untouched]

Init ==
    /\ dev \in [has_dpst : BOOLEAN, edp : BOOLEAN, platform : Platforms]
    /\ dpst = DpstInit
    /\ hw = HwReset
    /\ \E l \in PanelLevels : panel = [level |-> l, actual |-> l]
    /\ op = NoCall("none")
    /\ pre = [dpst |-> dpst, hw |-> hw, panel |-> panel]
    /\ applied = {}
    /\ rt = [ph |-> 0, x |-> 0, ue |-> FALSE]
    /\ ud = [ph |-> 0, old |-> {}]
    /\ lock = NULL
    /\ pc = [t \in Threads |-> Idle]
    /\ irq = IrqIdle
    /\ ext = NoFactor

\* the factor of the last apply that succeeded since user_enable last became
\* true ({} when there is none)
AppliedNext(cmd, data, r) ==
    IF ~r.m.dpst.user_enable THEN {}
    ELSE IF cmd = "DPST_APPLY_LUMA" /\ dev.has_dpst /\ r.ret = 0
    THEN {data.blc}
    ELSE applied

\* a set_kernel_disable(true) called with the feature enabled and the
\* enhancement table enabled (ph = 1, x = blc_adjustment at that call),
\* followed at once by a set_kernel_disable(false) (ph = 2)
RoundTripNext(cmd, disable) ==
    IF cmd = "set_kernel_disable" /\ disable /\ dev.has_dpst
       /\ dpst.enabled /\ IE_MOD_TABLE_ENABLE \in hw.ctl
    THEN [ph |-> 1, x |-> dpst.blc_adjustment, ue |-> dpst.user_enable]
    ELSE IF cmd = "set_kernel_disable" /\ ~disable /\ rt.ph = 1
    THEN [rt EXCEPT !.ph = 2]
    ELSE [ph |-> 0, x |-> 0, ue |-> FALSE]

\* the hardware-enable sequence has run in the call that made the accesses wr
EnableSequenceRan(wr) == \E i \in 1..Len(wr) : wr[i].reg = "vblank"

\* the calls since the last set_user_enable(false): no hardware enable since
\* it (ph = 1), a hardware enable and no successful apply since it (ph = 2);
\* ph = 0 when there was no user disable or an apply has succeeded since it;
\* old = the
\* factors (other than the neutral 10000 and the initial 0) that were in
\* effect or saved when a user disable was called and that no apply has set
\* again since
UserDisableNext(cmd, data, r) ==
    IF cmd = "DPST_DISABLE" /\ dev.has_dpst
    THEN [ph |-> 1,
          old |-> (ud.old \cup {dpst.blc_adjustment}
                      \cup (IF dpst.saved.is_valid
                            THEN {dpst.saved.blc_adjustment} ELSE {}))
                  \ {0, DPST_MAX_FACTOR}]
    ELSE IF cmd = "DPST_APPLY_LUMA" /\ dev.has_dpst /\ r.ret = 0
    THEN [ph |-> 0, old |-> ud.old \ {data.blc}]
    ELSE IF ud.ph = 1 /\ EnableSequenceRan(r.m.wr)
    THEN [ud EXCEPT !.ph = 2]
    ELSE ud

\* one call has returned r.  op is the call that returned last (its command,
\* its arguments, the calling task, its return value, the hardware accesses it made and the
\* caller's buffer after it) and pre the state it was called in.
Return(cmd, disable, data, r) ==
    /\ dpst' = r.m.dpst
    /\ hw' = r.m.hw
    /\ panel' = r.m.panel
    /\ op' = [cmd |-> cmd, disable |-> disable, task |-> data.current,
              sig |-> data.sig_num, blc |-> data.blc, val |-> data.brightness_val,
              reads |-> data.trace,
              table |-> data.table, ret |-> r.ret, wr |-> r.m.wr, out |-> r.out]
    /\ pre' = [dpst |-> dpst, hw |-> hw, panel |-> panel]
    /\ applied' = AppliedNext(cmd, data, r)
    /\ rt' = RoundTripNext(cmd, disable)
    /\ ud' = UserDisableNext(cmd, data, r)
    /\ UNCHANGED <<dev, calls>>

Ioctl(data) ==
    LET r == i915_dpst_context(Machine, data)
    IN  r.done /\ Return(IF data.null THEN "NULL" ELSE data.dpst_ioctl_type,
                          FALSE, data, r)

Enable == Ioctl(Data("DPST_ENABLE"))

Disable == Ioctl(Data("DPST_DISABLE"))

InitWithParams ==
    \E n \in NotifyInputs, d \in GbDelays, g \in GbThresholds :
        Ioctl([Data("DPST_INIT_DATA") EXCEPT !.current = n.task, !.sig_num = n.sig,
                                             !.gb_delay = d, !.threshold_gb = g])

ApplyLuma ==
    \E t \in IeTables, f \in BlcFactors :
        Ioctl([Data("DPST_APPLY_LUMA") EXCEPT !.table = t, !.blc = f])

FetchHistogram ==
    \E reads \in FetchReads :
        Ioctl([Data("DPST_GET_BIN_DATA") EXCEPT !.reads = reads])

ClearHistogramInterrupt == Ioctl(Data("DPST_RESET_HISTOGRAM_STATUS"))

InvalidType == Ioctl(Data("DPST_INVALID"))

NoData == Ioctl([Data("none") EXCEPT !.null = TRUE])

SetKernelDisable ==
    \E disable \in BOOLEAN :
        LET r == i915_dpst_set_kernel_disable(Machine, disable)
        IN  Return("set_kernel_disable", disable, Data("none"),
                   [m |-> r.m, ret |-> r.ret, out |-> Untouched])

\* the histogram engine, collecting, raises its event
HistogramEvent ==
    /\ dpst.reg # "unresolved"
    /\ IE_HISTOGRAM_ENABLE \in hw.ctl
    /\ ~hw.pending
    /\ hw' = [hw EXCEPT !.pending = TRUE]
    /\ op' = NoCall("event")
    /\ pre' = [dpst |-> dpst, hw |-> hw', panel |-> panel]
    /\ UNCHANGED <<dev, dpst, panel, applied, rt, ud, calls>>

Next ==
    \/ Enable
    \/ Disable
    \/ InitWithParams
    \/ ApplyLuma
    \/ FetchHistogram
    \/ ClearHistogramInterrupt
    \/ InvalidType
    \/ NoData
    \/ SetKernelDisable
    \/ HistogramEvent

Spec == Init /\ [][Next]_vars

(***************************************************************************)
(* The backlight scaling: inits, applies of any factor, and the callers of *)
(* i915_dpst_set_brightness outside the dispatcher.                        *)
(***************************************************************************)
ApplyAnyFactor ==
    \E f \in AnyBlcFactors :
        Ioctl([Data("DPST_APPLY_LUMA") EXCEPT !.blc = f])

SetBrightness ==
    \E v \in AnyLevels :
        Return("set_brightness", FALSE, [Data("none") EXCEPT !.brightness_val = v],
               [m |-> i915_dpst_set_brightness(Machine, v), ret |-> 0,
                out |-> Untouched])

ScaleNext ==
    \/ InitWithParams
    \/ ApplyAnyFactor
    \/ SetBrightness

SpecScale == Init /\ [][ScaleNext]_vars

(***************************************************************************)
(* The histogram fetch over every sequence of values the bin register can  *)
(* return: a fetch returns when its loop has run over exactly that         *)
(* sequence.                                                               *)
(***************************************************************************)
FetchTraced ==
    \E n \in 0..MaxReads : \E reads \in [1..n -> ReadValues] :
        Ioctl([Data("DPST_GET_BIN_DATA") EXCEPT !.reads = reads, !.trace = reads])

FetchNext ==
    \/ Enable
    \/ Disable
    \/ FetchTraced

SpecFetch == Init /\ [][FetchNext]_vars

(***************************************************************************)
(* The calls statement by statement.  A task in a call is at "mutex_lock"  *)
(* (past the checks made before the lock), at "switch" (holding the lock,  *)
(* before the handler of its command), inside the statements of            *)
(* i915_dpst_init ("init_signal"), of i915_dpst_enable_hist_interrupt      *)
(* ("enable", before statement k), of i915_dpst_restore_luma ("restore"),  *)
(* in the read loop of i915_dpst_get_bin_data ("bin_loop"), or at          *)
(* "mutex_unlock".  The handlers that are not interleaved statement by     *)
(* statement run as one step.                                              *)
(***************************************************************************)
\* mutex_lock(&dev_priv->dpst.ioctl_lock) by task t with l the holder: the
\* call returns (ok) only once nobody holds the lock
mutex_lock_granted_always(l, t) == [ok |-> TRUE, holder |-> t]

mutex_lock(l, t) == [ok |-> l = NULL, holder |-> t]

mutex_unlock(l, t) == NULL

\* the frame f of a call that goes on at the statement `at`
Goto(f, at) == [f EXCEPT !.at = at]

\* the frame of a call that is left with its return value to give
Leave(f, ret) == [f EXCEPT !.at = "mutex_unlock", !.ret = ret]

\* i915_dpst_set_user_enable(dev, true) up to its call of
\* i915_dpst_enable_hist_interrupt
StartUserEnable(m, f) ==
    LET m1 == [m EXCEPT !.dpst.user_enable = TRUE]
    IN  IF ~m1.dpst.kernel_disable /\ ~m1.dpst.enabled
        THEN [m |-> m1, f |-> [f EXCEPT !.at = "enable", !.k = 1, !.then = "mutex_unlock"]]
        ELSE [m |-> m1, f |-> Leave(f, 0)]

\* a dispatcher that returns from an unknown command type as it stands,
\* without the mutex_unlock
context_default_returns_at_once(m, f, data) ==
    LET t == data.dpst_ioctl_type
    IN  IF t = "DPST_ENABLE" THEN StartUserEnable(m, f)
        ELSE IF t = "DPST_DISABLE"
        THEN LET r == i915_dpst_set_user_enable(m, FALSE)
             IN  [m |-> r.m, f |-> Leave(f, r.ret)]
        ELSE IF t = "DPST_INIT_DATA"
        THEN LET u == i915_dpst_update_registers(m)
             IN  IF u.ret # 0 THEN [m |-> m, f |-> Leave(f, -EINVAL)]
                 ELSE [m |-> [u.m EXCEPT !.dpst.task = data.current],
                       f |-> [f EXCEPT !.at = "init_signal", !.sig = data.sig_num,
                                       !.gb = GuardBand(data)]]
        ELSE IF t = "DPST_APPLY_LUMA"
        THEN LET r == i915_dpst_apply_luma(m, data)
             IN  [m |-> r.m, f |-> Leave(f, r.ret)]
        ELSE IF t = "DPST_GET_BIN_DATA"
        THEN IF ~m.dpst.enabled /\ ~m.dpst.user_enable
             THEN [m |-> m, f |-> Leave(f, -EINVAL)]
             ELSE [m |-> WriteCtl(m, ReadCtl(m) \ {BIN_REG_FUNCTION_SELECT_IE}, 0),
                   f |-> [f EXCEPT !.at = "bin_loop", !.index = 0]]
        ELSE IF t = "DPST_RESET_HISTOGRAM_STATUS"
        THEN LET r == i915_dpst_clear_hist_interrupt(m)
             IN  [m |-> r.m, f |-> Leave(f, r.ret)]
        ELSE [m |-> m, f |-> [f EXCEPT !.at = "idle", !.ret = -EINVAL]]

\* the switch of i915_dpst_context on the command type, up to the first
\* statement that other contexts can interleave with
context_switch(m, f, data) ==
    LET t == data.dpst_ioctl_type
    IN  IF t = "DPST_ENABLE" THEN StartUserEnable(m, f)
        ELSE IF t = "DPST_DISABLE"
        THEN LET r == i915_dpst_set_user_enable(m, FALSE)
             IN  [m |-> r.m, f |-> Leave(f, r.ret)]
        ELSE IF t = "DPST_INIT_DATA"
        THEN LET u == i915_dpst_update_registers(m)
             IN  IF u.ret # 0 THEN [m |-> m, f |-> Leave(f, -EINVAL)]
                 ELSE [m |-> [u.m EXCEPT !.dpst.task = data.current],
                       f |-> [f EXCEPT !.at = "init_signal", !.sig = data.sig_num,
                                       !.gb = GuardBand(data)]]
        ELSE IF t = "DPST_APPLY_LUMA"
        THEN LET r == i915_dpst_apply_luma(m, data)
             IN  [m |-> r.m, f |-> Leave(f, r.ret)]
        ELSE IF t = "DPST_GET_BIN_DATA"
        THEN IF ~m.dpst.enabled /\ ~m.dpst.user_enable
             THEN [m |-> m, f |-> Leave(f, -EINVAL)]
             ELSE [m |-> WriteCtl(m, ReadCtl(m) \ {BIN_REG_FUNCTION_SELECT_IE}, 0),
                   f |-> [f EXCEPT !.at = "bin_loop", !.index = 0]]
        ELSE IF t = "DPST_RESET_HISTOGRAM_STATUS"
        THEN LET r == i915_dpst_clear_hist_interrupt(m)
             IN  [m |-> r.m, f |-> Leave(f, r.ret)]
        ELSE [m |-> m, f |-> Leave(f, -EINVAL)]

\* i915_dpst_set_kernel_disable after its mutex_lock, up to the first
\* statement that other contexts can interleave with
kernel_disable_locked(m, f, disable) ==
    LET m1 == [m EXCEPT !.dpst.kernel_disable = disable]
    IN  IF disable /\ m1.dpst.enabled
        THEN LET r == i915_dpst_disable_hist_interrupt(i915_dpst_save_luma(m1))
             IN  [m |-> r.m, f |-> Leave(f, r.ret)]
        ELSE IF ~disable /\ m1.dpst.user_enable
        THEN [m |-> m1, f |-> [f EXCEPT !.at = "enable", !.k = 1, !.then = "restore"]]
        ELSE [m |-> m1, f |-> Leave(f, 0)]

\* the commands of the calls that run statement by statement
StepInputs ==
    {Data(ty) : ty \in {"DPST_ENABLE", "DPST_DISABLE", "DPST_GET_BIN_DATA",
                        "DPST_RESET_HISTOGRAM_STATUS", "DPST_INVALID"}}
    \cup {[Data("DPST_INIT_DATA") EXCEPT !.current = n.task, !.sig_num = n.sig,
                                         !.gb_delay = 1, !.threshold_gb = 1] :
             n \in NotifyInputs}
    \cup {[Data("DPST_APPLY_LUMA") EXCEPT !.blc = f] : f \in BlcFactors}

Commit(m) ==
    /\ dpst' = m.dpst
    /\ hw' = m.hw
    /\ panel' = m.panel

\* task t makes a step of its call and nothing else moves
Proceed(t, m, f) ==
    /\ Commit(m)
    /\ pc' = [pc EXCEPT ![t] = f]
    /\ UNCHANGED <<dev, op, pre, applied, rt, ud, irq, ext>>

\* i915_dpst_context with no data: it returns before the lock
EarlyReturn(t) ==
    /\ pc[t].at = "idle"
    /\ i915_dpst_context(Machine, [Data("none") EXCEPT !.null = TRUE]).ret = -EINVAL
    /\ Proceed(t, Machine, [Idle EXCEPT !.ret = -EINVAL])
    /\ UNCHANGED lock

\* i915_dpst_context or i915_dpst_set_kernel_disable up to its mutex_lock
Call(t) ==
    /\ pc[t].at = "idle"
    /\ dev.has_dpst
    /\ \E fn \in {"i915_dpst_context", "i915_dpst_set_kernel_disable"} :
           Proceed(t, Machine, [Idle EXCEPT !.at = "mutex_lock", !.fn = fn])
    /\ UNCHANGED lock

Lock(t) ==
    /\ pc[t].at = "mutex_lock"
    /\ mutex_lock(lock, t).ok
    /\ lock' = mutex_lock(lock, t).holder
    /\ Proceed(t, Machine, Goto(pc[t], "switch"))

Switch(t) ==
    /\ pc[t].at = "switch"
    /\ \/ /\ pc[t].fn = "i915_dpst_context"
          /\ \E data \in StepInputs :
                 LET r == context_switch(Machine, pc[t], data)
                 IN  Proceed(t, r.m, r.f)
       \/ /\ pc[t].fn = "i915_dpst_set_kernel_disable"
          /\ \E disable \in BOOLEAN :
                 LET r == kernel_disable_locked(Machine, pc[t], disable)
                 IN  Proceed(t, r.m, r.f)
    /\ UNCHANGED lock

\* the store of the signal number, the guard band write and the user enable
\* of i915_dpst_init
InitSignal(t) ==
    /\ pc[t].at = "init_signal"
    /\ LET m2 == [Machine EXCEPT !.dpst.signal = pc[t].sig]
           m3 == WriteGuard(m2, ReadGuard(m2) \cup pc[t].gb)
           r == StartUserEnable(m3, [pc[t] EXCEPT !.sig = 0, !.gb = {}])
       IN  Proceed(t, r.m, r.f)
    /\ UNCHANGED lock

\* one statement of i915_dpst_enable_hist_interrupt; seq = the hardware
\* accesses of the statements run so far
EnableStatement(t) ==
    /\ pc[t].at = "enable"
    /\ LET m == enable_hist_statement(Machine, pc[t].k)
           f == [pc[t] EXCEPT !.seq = @ \o m.wr]
       IN  Proceed(t, m, IF pc[t].k < 6 THEN [f EXCEPT !.k = @ + 1]
                         ELSE IF pc[t].then = "restore"
                         THEN [f EXCEPT !.at = "restore", !.k = 0, !.then = "none"]
                         ELSE [Leave(f, 0) EXCEPT !.k = 0, !.then = "none"])
    /\ UNCHANGED lock

Restore(t) ==
    /\ pc[t].at = "restore"
    /\ Proceed(t, i915_dpst_restore_luma(Machine), Leave(pc[t], 0))
    /\ UNCHANGED lock

\* one pass of the read loop of i915_dpst_get_bin_data, over the value the
\* bin register returns
BinRead(t) ==
    /\ pc[t].at = "bin_loop"
    /\ \E v \in {BusyRead} \cup CleanReads :
           LET l == BinLoop(Machine, pc[t].out, pc[t].index, <<v>>)
               f == [pc[t] EXCEPT !.out = l.out, !.index = l.index]
           IN  Proceed(t, l.m, IF l.index >= HIST_BIN_COUNT
                                THEN [Leave(f, 0) EXCEPT !.index = 0]
                                ELSE f)
    /\ UNCHANGED lock

Unlock(t) ==
    /\ pc[t].at = "mutex_unlock"
    /\ lock' = mutex_unlock(lock, t)
    /\ Proceed(t, Machine, [Idle EXCEPT !.ret = pc[t].ret])

\* the statements of a call past its entry
Kernel(t) ==
    \/ Lock(t)
    \/ Switch(t)
    \/ InitSignal(t)
    \/ EnableStatement(t)
    \/ Restore(t)
    \/ BinRead(t)
    \/ Unlock(t)

TaskStep(t) ==
    \/ EarlyReturn(t)
    \/ Call(t)
    \/ Kernel(t)

\* a device with DPST, an eDP panel and the Haswell registers
InitCalls ==
    /\ Init
    /\ dev = [has_dpst |-> TRUE, edp |-> TRUE, platform |-> "HASWELL"]

(***************************************************************************)
(* The calls of two tasks.                                                 *)
(***************************************************************************)
LockNext == \E t \in Threads : TaskStep(t)

SpecLock == InitCalls /\ [][LockNext]_vars

(***************************************************************************)
(* The calls of one task, the histogram engine and the interrupt handler.  *)
(***************************************************************************)
\* an interrupt handler that waits for the holder l of ioctl_lock
irq_handler_waits_for_lock(l) == l = NULL

\* i915_dpst_irq_handler runs in interrupt context whoever holds ioctl_lock
irq_handler_runs(l) == TRUE

\* the histogram engine, collecting, raises its event; with the histogram
\* interrupt enabled the interrupt handler is entered
HwEvent ==
    /\ dpst.reg # "unresolved"
    /\ IE_HISTOGRAM_ENABLE \in hw.ctl
    /\ ~hw.pending
    /\ irq.at = "idle"
    /\ hw' = [hw EXCEPT !.pending = TRUE]
    /\ irq' = IF HISTOGRAM_INTERRUPT_ENABLE \in hw.guard
              THEN [IrqIdle EXCEPT !.at = "entry"]
              ELSE irq
    /\ UNCHANGED <<dev, dpst, panel, op, pre, applied, rt, ud, lock, pc, ext>>

\* if (dev_priv->dpst.task != NULL)
IrqEntry ==
    /\ irq.at = "entry"
    /\ irq_handler_runs(lock)
    /\ irq' = IF dpst.task # NULL THEN [irq EXCEPT !.at = "load"] ELSE IrqIdle
    /\ UNCHANGED <<dev, dpst, hw, panel, op, pre, applied, rt, ud, lock, pc, ext>>

\* the loads of dev_priv->dpst.signal and dev_priv->dpst.task for the
\* arguments of send_sig_info, in either order
IrqLoad ==
    /\ irq.at = "load"
    /\ irq_handler_runs(lock)
    /\ \/ irq.sig = -1 /\ irq' = [irq EXCEPT !.sig = dpst.signal]
       \/ irq.task = "unread" /\ irq' = [irq EXCEPT !.task = dpst.task]
    /\ UNCHANGED <<dev, dpst, hw, panel, op, pre, applied, rt, ud, lock, pc, ext>>

\* send_sig_info(signal, SEND_SIG_FORCED, task)
IrqSend ==
    /\ irq.at = "load"
    /\ irq_handler_runs(lock)
    /\ irq.sig # -1 /\ irq.task # "unread"
    /\ irq' = [IrqIdle EXCEPT !.sent = Append(irq.sent,
                                              [task |-> irq.task, sig |-> irq.sig])]
    /\ UNCHANGED <<dev, dpst, hw, panel, op, pre, applied, rt, ud, lock, pc, ext>>

IrqStep ==
    \/ IrqEntry
    \/ IrqLoad
    \/ IrqSend

IrqNext ==
    \/ TaskStep("T1")
    \/ HwEvent
    \/ IrqStep

SpecIrq == InitCalls /\ [][IrqNext]_vars

(***************************************************************************)
(* The calls of one task and the backlight requests from outside the       *)
(* dispatcher: i915_dpst_set_brightness called under backlight_lock,       *)
(* without ioctl_lock.                                                     *)
(***************************************************************************)
ExtSetBrightness ==
    \E v \in PanelLevels :
        LET m == i915_dpst_set_brightness(spin_lock_irqsave(Machine), v)
        IN  /\ Commit(spin_unlock_irqrestore(m))
            /\ ext' = IF \E i \in 1..Len(m.wr) : m.wr[i].reg = "backlight"
                      THEN dpst.blc_adjustment
                      ELSE ext
            /\ UNCHANGED <<dev, op, pre, applied, rt, ud, lock, pc, irq>>

BacklightNext ==
    \/ TaskStep("T1")
    \/ ExtSetBrightness

SpecBacklight == InitCalls /\ [][BacklightNext]_vars

(***************************************************************************)
(* The calls of one task, scheduled fairly: a task inside a call makes its *)
(* next statement; nothing makes the bin register stop returning busy.     *)
(***************************************************************************)
TermNext == TaskStep("T1")

SpecTerm == InitCalls /\ [][TermNext]_vars /\ WF_vars(Kernel("T1"))

(***************************************************************************)
(* Properties.  op is the call that returned last and pre the state it was *)
(* called in, so a state predicate over pre, op and the current state      *)
(* speaks about one call.                                                  *)
(***************************************************************************)
\* the hardware accesses of the enable sequence, by register
EnableSequenceRegs == <<"blm_hist_ctl", "vblank", "blm_hist_guard", "blm_hist_guard">>

\* the handler of ioctl type or entry point c has run and returned
Called(c) == dev.has_dpst /\ op.cmd = c

SetUserEnableCalls == {"DPST_ENABLE", "DPST_DISABLE", "DPST_INIT_DATA"}

\* C1: after every set_user_enable (Enable, Disable, InitWithParams) or
\* set_kernel_disable call, enabled = (user_enable /\ ~kernel_disable).
C1_EnabledIsUserEnableAndNotKernelDisable ==
    (dev.has_dpst /\ op.cmd \in SetUserEnableCalls \cup {"set_kernel_disable"})
        => (dpst.enabled = (dpst.user_enable /\ ~dpst.kernel_disable))

\* C2: while user_enable stays true, once set_kernel_disable(false) has
\* returned with kernel_disable false, blc_adjustment is the blc_factor of the
\* most recent successful apply.
C2_KernelDisableKeepsAppliedFactor ==
    (Called("set_kernel_disable") /\ ~op.disable /\ ~dpst.kernel_disable
        /\ dpst.user_enable /\ applied # {})
        => (applied = {dpst.blc_adjustment})

\* C3: from a state with enabled, the enhancement table enabled and
\* blc_adjustment = X, set_kernel_disable(true) followed by
\* set_kernel_disable(false) ends with blc_adjustment = X, the table enabled
\* again, enabled true and user_enable as it was.
C3_SaveRestoreRoundTrip ==
    (rt.ph = 2 /\ op.cmd = "set_kernel_disable")
        => /\ dpst.blc_adjustment = rt.x
           /\ IE_MOD_TABLE_ENABLE \in hw.ctl
           /\ dpst.enabled
           /\ dpst.user_enable = rt.ue
           /\ op.ret = 0

\* C3 witness: a round trip has carried a factor an apply had set.
C3_Witness ==
    /\ rt.ph = 2 /\ op.cmd = "set_kernel_disable" /\ ~op.disable
    /\ rt.x \in BlcFactors
    /\ pre.dpst.kernel_disable /\ ~pre.dpst.enabled
    /\ dpst.blc_adjustment = rt.x

\* the call that returned last was a set_kernel_disable on one of the two
\* transitions on which it is to act
KernelDisableTransition ==
    \/ op.disable /\ ~pre.dpst.kernel_disable /\ pre.dpst.enabled
    \/ ~op.disable /\ pre.dpst.kernel_disable /\ pre.dpst.user_enable

\* C4: set_kernel_disable acts only on a transition (false->true while
\* enabled, true->false while user_enable); every other call of it leaves
\* enabled, blc_adjustment, saved and the hardware registers unchanged.
C4_KernelDisableActsOnlyOnTransition ==
    (Called("set_kernel_disable") /\ ~KernelDisableTransition)
        => /\ dpst.enabled = pre.dpst.enabled
           /\ dpst.blc_adjustment = pre.dpst.blc_adjustment
           /\ dpst.saved = pre.dpst.saved
           /\ hw = pre.hw
           /\ panel = pre.panel

\* the call that returned last ran i915_dpst_restore_luma on valid settings
RestoreRan ==
    /\ Called("set_kernel_disable") /\ ~op.disable
    /\ pre.dpst.user_enable /\ pre.dpst.saved.is_valid /\ dev.edp

\* the call that returned last was a save event: i915_dpst_save_luma on a
\* kernel disable, or an apply deferred during a kernel disable
SaveEvent ==
    \/ /\ Called("set_kernel_disable") /\ op.disable /\ pre.dpst.enabled
       /\ IE_MOD_TABLE_ENABLE \in pre.hw.ctl
    \/ Called("DPST_APPLY_LUMA") /\ op.ret = 0 /\ pre.dpst.kernel_disable

\* C5 as claimed: saved.is_valid becomes true only at a save event, and once
\* the restore on resumption has consumed the snapshot it is false.
C5_SnapshotConsumedByRestore ==
    /\ (~pre.dpst.saved.is_valid /\ dpst.saved.is_valid) => SaveEvent
    /\ RestoreRan => ~dpst.saved.is_valid

\* C5 as amended: saved.is_valid becomes true only at a save event and becomes
\* false only at a user disable; the restore on resumption puts
\* saved.blc_adjustment into effect and leaves saved as it is.
C5_SnapshotValidUntilUserDisable ==
    /\ (~pre.dpst.saved.is_valid /\ dpst.saved.is_valid) => SaveEvent
    /\ (pre.dpst.saved.is_valid /\ ~dpst.saved.is_valid) => Called("DPST_DISABLE")
    /\ RestoreRan => /\ dpst.saved = pre.dpst.saved
                     /\ dpst.blc_adjustment = dpst.saved.blc_adjustment

\* C5 witness: a restore has run on a snapshot taken by i915_dpst_save_luma.
C5_Witness ==
    /\ RestoreRan /\ pre.dpst.kernel_disable
    /\ dpst.saved.is_valid /\ dpst.saved.blc_adjustment \in BlcFactors
    /\ dpst.blc_adjustment = dpst.saved.blc_adjustment

\* C6: set_user_enable(false) always leaves saved.is_valid false.
C6_UserDisableInvalidatesSaved ==
    Called("DPST_DISABLE") => ~dpst.saved.is_valid

\* C6 witness: a user disable during a kernel disable has dropped a snapshot.
C6_Witness ==
    /\ Called("DPST_DISABLE")
    /\ pre.dpst.saved.is_valid /\ pre.dpst.kernel_disable /\ ~pre.dpst.enabled
    /\ ~dpst.saved.is_valid

\* C7 as claimed: an apply fails if and only if user_enable is false when it
\* is called.
C7_ApplyFailsIffUserDisabled ==
    Called("DPST_APPLY_LUMA") => ((op.ret # 0) <=> ~pre.dpst.user_enable)

\* C7 as amended: an apply fails, with -EINVAL, if and only if user_enable is
\* false or there is no eDP connector; kernel_disable does not enter into it.
C7_ApplyFailsIffUserDisabledOrNoConnector ==
    Called("DPST_APPLY_LUMA")
        => /\ op.ret \in {0, -EINVAL}
           /\ (op.ret = -EINVAL) <=> (~pre.dpst.user_enable \/ ~dev.edp)

\* C7 witness: an apply has succeeded during a kernel disable.
C7_Witness ==
    /\ Called("DPST_APPLY_LUMA") /\ op.ret = 0
    /\ pre.dpst.user_enable /\ pre.dpst.kernel_disable

\* what a deferred apply is to do
DeferredApplyEffect ==
    /\ op.ret = 0
    /\ hw.ie = [i \in 1..DPST_DIET_ENTRY_COUNT |-> DietFactor(op.table[i])]
    /\ dpst.saved = [is_valid |-> TRUE, blc_adjustment |-> op.blc]
    /\ dpst.blc_adjustment = pre.dpst.blc_adjustment
    /\ dpst.enabled = pre.dpst.enabled
    /\ panel = pre.panel
    /\ \A i \in 1..Len(op.wr) : op.wr[i].reg # "backlight"
    /\ (IE_MOD_TABLE_ENABLE \in hw.ctl) = (IE_MOD_TABLE_ENABLE \in pre.hw.ctl)

\* C8 as claimed: an apply called with user_enable and kernel_disable both
\* true programs the table, sets saved to {true, blc_factor}, returns success
\* and leaves blc_adjustment, enabled, the live backlight and the
\* table-enable bit unchanged.
C8_DeferredApply ==
    (Called("DPST_APPLY_LUMA") /\ pre.dpst.user_enable /\ pre.dpst.kernel_disable)
        => DeferredApplyEffect

\* C8 as amended: the same, for an apply called where an eDP connector exists.
C8_DeferredApplyWithConnector ==
    (Called("DPST_APPLY_LUMA") /\ pre.dpst.user_enable /\ pre.dpst.kernel_disable
        /\ dev.edp)
        => DeferredApplyEffect

\* C8 witness: a deferred apply has replaced an earlier snapshot while
\* another factor was the one last in effect.
C8_Witness ==
    /\ Called("DPST_APPLY_LUMA") /\ pre.dpst.user_enable /\ pre.dpst.kernel_disable
    /\ dev.edp /\ op.ret = 0
    /\ pre.dpst.saved.is_valid /\ pre.dpst.saved.blc_adjustment # op.blc
    /\ dpst.saved.blc_adjustment = op.blc
    /\ dpst.blc_adjustment = DPST_MAX_FACTOR

\* C9: a command that returns an error leaves user_enable, kernel_disable,
\* enabled, blc_adjustment, saved and the notify target unchanged.
C9_FailedCommandLeavesStateUnchanged ==
    (op.cmd \notin {"none", "event"} /\ op.ret # 0)
        => /\ dpst.user_enable = pre.dpst.user_enable
           /\ dpst.kernel_disable = pre.dpst.kernel_disable
           /\ dpst.enabled = pre.dpst.enabled
           /\ dpst.blc_adjustment = pre.dpst.blc_adjustment
           /\ dpst.saved = pre.dpst.saved
           /\ dpst.task = pre.dpst.task
           /\ dpst.signal = pre.dpst.signal

\* C10: a fetch fails exactly when enabled and user_enable are both false,
\* and then writes nothing to the caller's buffer nor to the hardware; with
\* user_enable true and enabled false the fetch is made.
C10_FetchFailsOnlyWhenUserDisabled ==
    Called("DPST_GET_BIN_DATA")
        => /\ (op.ret # 0) <=> (~pre.dpst.enabled /\ ~pre.dpst.user_enable)
           /\ (op.ret # 0) => /\ op.ret = -EINVAL
                              /\ op.out = Untouched
                              /\ op.wr = <<>>
                              /\ hw = pre.hw
           /\ (op.ret = 0) => /\ \A i \in 1..HIST_BIN_COUNT : op.out[i] \in BinCounts
                              /\ hw.idx = HIST_BIN_COUNT

\* C10 witness: a fetch has returned the bins during a kernel disable.
C10_Witness ==
    /\ Called("DPST_GET_BIN_DATA") /\ op.ret = 0
    /\ pre.dpst.user_enable /\ pre.dpst.kernel_disable /\ ~pre.dpst.enabled
    /\ \A i \in 1..HIST_BIN_COUNT : op.out[i] \in BinCounts

\* C11: InitWithParams on a platform that is neither Haswell nor Valleyview
\* returns -EINVAL, makes no hardware access and leaves the DPST state
\* (registers, notify target, user_enable, enabled) and the hardware as they
\* were.  On a supported platform it returns with the registers of the
\* platform resolved and the caller recorded as notify target; its first
\* hardware access is the guard register write that adds the guard band to
\* the content of the resolved register, and the accesses of the user enable
\* (the enable sequence, when the hardware was off and the kernel had not
\* disabled it) come after it.
C11_InitWithParams ==
    Called("DPST_INIT_DATA") =>
        IF dev.platform \notin {"HASWELL", "VALLEYVIEW"}
        THEN /\ op.ret = -EINVAL
             /\ op.wr = <<>>
             /\ dpst = pre.dpst /\ hw = pre.hw /\ panel = pre.panel
        ELSE /\ op.ret = 0
             /\ dpst.reg = (IF dev.platform = "HASWELL" THEN "BLM_HIST"
                                                         ELSE "VLV_BLC_HIST")
             /\ dpst.task = op.task /\ dpst.signal = op.sig
             /\ Len(op.wr) >= 1
             /\ op.wr[1].reg = "blm_hist_guard"
             /\ op.wr[1].val =
                    {GB_DELAY, GB_THRESHOLD}
                        \cup (IF pre.dpst.reg = dpst.reg
                              THEN pre.hw.guard
                                       \cup (IF pre.hw.pending
                                             THEN {HISTOGRAM_EVENT_STATUS} ELSE {})
                              ELSE {})
             /\ dpst.user_enable
             /\ IF pre.dpst.enabled \/ pre.dpst.kernel_disable
                THEN Len(op.wr) = 1 /\ dpst.enabled = pre.dpst.enabled
                ELSE /\ [i \in 1..4 |-> op.wr[i + 1].reg] = EnableSequenceRegs
                     /\ Len(op.wr) = 5
                     /\ dpst.enabled

\* an init refused on an unsupported platform, called with the feature on
C11_Witness ==
    /\ Called("DPST_INIT_DATA")
    /\ dev.platform = "OTHER"
    /\ op.ret = -EINVAL
    /\ pre.dpst.enabled
    /\ op.task = "t2"

\* raw_level * adjustment / 10000 rounded down, which is what two truncating
\* divisions by 100 of the product give, over the integers
ExactScale(raw_level, adjustment) ==
    raw_level * (adjustment \div 10000)
        + (raw_level * (adjustment % 10000)) \div 10000

\* i915_dpst_set_brightness has handed a level to the panel
Scaled ==
    /\ op.cmd = "set_brightness"
    /\ op.wr # <<>>

\* C13: the backlight level the scaling path hands to the panel is
\* (raw_level * adjustment / 100) / 100 with two truncating divisions, for
\* every raw_level and every adjustment.
C13_ScaleIsExact ==
    Scaled => op.wr = << [reg |-> "backlight",
                          val |-> {ExactScale(op.val, pre.dpst.blc_adjustment)},
                          idx |-> 0] >>

\* the hardware-disable sequence was asked for: a user disable or a kernel
\* disable called with the hardware on
DisableSequenceCalled ==
    /\ \/ Called("DPST_DISABLE")
       \/ Called("set_kernel_disable") /\ op.disable
    /\ pre.dpst.enabled

\* C15: the hardware-disable sequence writes the guard register once, with
\* the interrupt-enable bit cleared and the pending bit written in the same
\* write; then writes the control register with the collection-enable and
\* table-enable bits cleared; then, holding the backlight lock, sets the panel
\* backlight to the raw level.  After it returns enabled is false,
\* blc_adjustment is 10000 and the live backlight is the raw level.
C15_DisableSequence ==
    DisableSequenceCalled =>
        /\ Len(op.wr) = 5
        /\ op.wr[1].reg = "blm_hist_guard"
        /\ HISTOGRAM_EVENT_STATUS \in op.wr[1].val
        /\ HISTOGRAM_INTERRUPT_ENABLE \notin op.wr[1].val
        /\ op.wr[2].reg = "blm_hist_ctl"
        /\ op.wr[2].val = pre.hw.ctl \ {IE_HISTOGRAM_ENABLE, IE_MOD_TABLE_ENABLE}
        /\ op.wr[3] = [reg |-> "backlight_lock", val |-> {"lock"}, idx |-> 0]
        /\ op.wr[4] = [reg |-> "backlight", val |-> {pre.panel.level}, idx |-> 0]
        /\ op.wr[5] = [reg |-> "backlight_lock", val |-> {"unlock"}, idx |-> 0]
        /\ ~dpst.enabled
        /\ dpst.blc_adjustment = DPST_MAX_FACTOR
        /\ panel.actual = panel.level

\* a fetch has returned the histogram
Fetched == Called("DPST_GET_BIN_DATA") /\ op.ret = 0

\* C16: when a fetch returns success, the HIST_BIN_COUNT values it returns are
\* the last HIST_BIN_COUNT values read, none of them busy, read in one pass
\* that began with the first read or right after the last busy read; each
\* busy read was answered by a write of index 0 to the control register, so
\* no value read before a busy read is in the returned data.
C16_FetchReturnsOneCleanPass ==
    Fetched =>
        LET n == Len(op.reads)
            first == n - HIST_BIN_COUNT
            busy == {i \in 1..n : op.reads[i].busy}
        IN  /\ first >= 0
            /\ \A i \in 1..HIST_BIN_COUNT :
                   /\ ~op.reads[first + i].busy
                   /\ op.out[i] = op.reads[first + i].count
            /\ first > 0 => op.reads[first].busy
            /\ Len(op.wr) = 1 + Cardinality(busy)
            /\ \A i \in 1..Len(op.wr) :
                   op.wr[i].reg = "blm_hist_ctl" /\ op.wr[i].idx = 0

\* a fetch that read a bin, met a busy read and returned other values
C16_Witness ==
    /\ Fetched
    /\ Len(op.reads) > HIST_BIN_COUNT + 1
    /\ ~op.reads[1].busy
    /\ op.reads[1].count # op.out[1]
    /\ \E i \in 1..Len(op.reads) : op.reads[i].busy

\* task t is between the return of its mutex_lock and its mutex_unlock
InCritical(t) == pc[t].at \notin {"idle", "mutex_lock"}

\* some task makes a step that reads or writes user_enable, kernel_disable,
\* enabled or saved: every statement of a call past its mutex_lock
StateAccess(t) == pc[t].at \notin {"idle", "mutex_lock"} /\ pc'[t] # pc[t]

\* C12: the dispatcher commands and set_kernel_disable exclude one another:
\* at most one task is between mutex_lock and mutex_unlock, and it is the
\* holder of the lock; a task that is back from its call does not hold the
\* lock (whatever the command or its return value); and every step that
\* reads or writes the DPST state is made by the holder of the lock.
C12_MutualExclusion ==
    /\ [](\A t \in Threads :
             /\ InCritical(t) => lock = t
             /\ pc[t].at \in {"idle", "mutex_lock"} => lock # t)
    /\ []((\A t \in Threads : ~InCritical(t)) => lock = NULL)
    /\ [][ /\ \A t \in Threads : StateAccess(t) => lock = t
           /\ dpst' # dpst => \E t \in Threads : StateAccess(t) /\ lock = t
         ]_vars

\* one task inside the enable sequence of its command, the other one called
\* and waiting for the lock
C12_Witness ==
    /\ lock = "T1"
    /\ pc["T1"].at = "enable"
    /\ pc["T2"].at = "mutex_lock"
    /\ pc["T2"].fn = "i915_dpst_set_kernel_disable"

\* C14: the enable sequence makes its hardware accesses in this order, one
\* at a time: the control register write that sets the collection-enable and
\* intensity-mode bits, the wait for a vblank, the guard register write that
\* clears the pending bit, the guard register write that sets the
\* interrupt-enable bit.  The interrupt-enable bit is not set before the
\* pending bit has been cleared (the clearing write does not carry it), and
\* the write that sets it does not clear the pending bit.
C14_EnableSequence ==
    \A t \in Threads :
        LET q == pc[t].seq
        IN  /\ Len(q) <= 4
            /\ [i \in 1..Len(q) |-> q[i].reg] = SubSeq(EnableSequenceRegs, 1, Len(q))
            /\ Len(q) >= 1 => {IE_HISTOGRAM_ENABLE, HSV_INTENSITY_MODE} \subseteq q[1].val
            /\ Len(q) >= 3 => /\ HISTOGRAM_EVENT_STATUS \in q[3].val
                              /\ HISTOGRAM_INTERRUPT_ENABLE \notin q[3].val
            /\ Len(q) >= 4 => /\ HISTOGRAM_INTERRUPT_ENABLE \in q[4].val
                              /\ HISTOGRAM_EVENT_STATUS \notin q[4].val

\* the interrupt handler makes a step
IrqMoves == irq.at # "idle" /\ irq' # irq

\* C17: a task that holds the lock releases it, unless it is in the read loop
\* of a fetch: every command other than a fetch terminates.  A task that is
\* back from its call does not hold the lock.  A fetch in its read loop holds
\* the lock; a read leaves the loop only as the HIST_BIN_COUNT-th clean read
\* in a row, with success; a busy read puts the loop back to index 0, any
\* number of times.
C17_Termination ==
    /\ \A t \in Threads :
           (lock = t) ~> (lock # t \/ pc[t].at = "bin_loop")
    /\ [](\A t \in Threads :
             /\ pc[t].at = "idle" => lock # t
             /\ pc[t].at = "bin_loop" => lock = t /\ pc[t].index < HIST_BIN_COUNT)
    /\ [][\A t \in Threads :
             pc[t].at = "bin_loop" /\ pc'[t] # pc[t] =>
                 \/ /\ pc'[t].at = "bin_loop"
                    /\ lock' = t
                    /\ pc'[t].index \in {0, pc[t].index + 1}
                 \/ /\ pc[t].index = HIST_BIN_COUNT - 1
                    /\ pc'[t].at = "mutex_unlock"
                    /\ pc'[t].ret = 0
         ]_vars

\* a fetch back at index 0 after a busy read that followed a clean one
C17_Witness ==
    /\ lock = "T1"
    /\ pc["T1"].at = "bin_loop"
    /\ pc["T1"].index = 0
    /\ pc["T1"].out[1] # 0

C19_SignalMatchesTask ==
    \A i \in 1..Len(irq.sent) : irq.sent[i] \in NotifyInputs

\* C20: a backlight request from outside the dispatcher is scaled only with
\* 10000 or with the blc_factor of an apply: it never finds enabled true with
\* blc_adjustment not yet reset by the enable sequence (the initial 0).
C20_ExternalScaleFactor ==
    ext \in {NoFactor, DPST_MAX_FACTOR} \cup BlcFactors

\* C21: after every command the hardware agrees with the flag: the
\* collection-enable bit of the control register and the interrupt-enable
\* bit of the guard register are set if and only if enabled is true, and the
\* table-enable bit is set only while enabled is true.
C21_HardwareAgreesWithEnabled ==
    /\ (IE_HISTOGRAM_ENABLE \in hw.ctl) = dpst.enabled
    /\ (HISTOGRAM_INTERRUPT_ENABLE \in hw.guard) = dpst.enabled
    /\ IE_MOD_TABLE_ENABLE \in hw.ctl => dpst.enabled

\* C22: once set_user_enable(false) has been called and the hardware-enable
\* sequence has run again, blc_adjustment is 10000 and the table-enable bit is
\* clear until an apply_settings succeeds, whatever set_kernel_disable calls
\* are made; and no factor that was in effect or saved at the user disable is
\* in effect afterwards unless an apply has set it again.
C22_UserDisableDiscardsSettings ==
    /\ ud.ph = 2 => /\ dpst.blc_adjustment = DPST_MAX_FACTOR
                    /\ IE_MOD_TABLE_ENABLE \notin hw.ctl
    /\ dpst.blc_adjustment \notin ud.old

\* a factor was applied and saved, the user disabled, and a
\* set_kernel_disable(false) has run the hardware-enable sequence and the
\* restore since
C22_Witness ==
    /\ ud.ph = 2 /\ ud.old # {}
    /\ Called("set_kernel_disable") /\ ~op.disable
    /\ EnableSequenceRan(op.wr)
    /\ dpst.enabled /\ dev.edp

====
